---- MODULE Spec2Model ----
(***************************************************************************)
(* Model of the control service management API, control/mgmtapi/api.go:    *)
(* the GetBeacons handler (query parameters -> store filter, projection    *)
(* of the stored beacons, sorting), the GetBeacon handler (lookup of one    *)
(* beacon by segment ID) and the GetHealth handler (signer, TRC and CA     *)
(* checks and their aggregation).                                          *)
(*                                                                         *)
(* One request is in flight at a time: pc = "idle" before a handler runs   *)
(* and pc = "done" after it has written its response.  Each handler is one *)
(* action.  Pointers (optional query parameters, optional fields of the    *)
(* response) are sequences of length at most one: Nil or Ref(v).           *)
(* Strings that the code compares or parses are sequences of character     *)
(* codes; times are whole seconds.                                         *)
(***************************************************************************)
EXTENDS Integers, Sequences, FiniteSets, TLC

VARIABLES
    pc,         \* "idle" | "done"
    handler,    \* the handler that produced the response, "" when idle
    params,     \* the parameters of the request (query parameters, segment ID)
    errs,       \* GetBeacons: the accumulated validation errors (serrors.List)
    storeCalls, \* the QueryParams handed to BeaconStore.GetBeacons, in order
    results,    \* what the store returned to the last call
    storeErr,   \* whether the last call of the store returned an error
    resp,       \* the response written to the http.ResponseWriter
    probes,     \* GetHealth: what the three Healther probes returned
    clock       \* GetHealth: the two readings of time.Now() made by time.Until

vars ==
    <<pc, handler, params, errs, storeCalls, results, storeErr, resp, probes, clock>>

----------------------------------------------------------------------------
(* Bounds of the model. *)

\* longest `usages` query parameter
MaxUsages == 2
\* most beacons the store returns to one query
MaxResults == 3
\* most seconds that pass between the two time.Until calls of GetHealth
MaxElapsed == 1

----------------------------------------------------------------------------
(* Pointers and small helpers. *)

Nil == <<>>
Ref(v) == <<v>>
IsSet(p) == Len(p) = 1
Deref(p) == p[1]

RECURSIVE SeqsUpTo(_, _)
\* every sequence over S of length at most n
SeqsUpTo(S, n) ==
    IF n = 0 THEN {<<>>}
    ELSE LET shorter == SeqsUpTo(S, n - 1)
         IN shorter \cup {Append(s, x) : s \in shorter, x \in S}

Range(s) == {s[i] : i \in DOMAIN s}
Injective(s) == \A i, j \in DOMAIN s : s[i] = s[j] => i = j
Reverse(s) == [i \in DOMAIN s |-> s[Len(s) + 1 - i]]

----------------------------------------------------------------------------
(* Strings as sequences of character codes. *)

ChDash == 45
ChZero == 48
ChX == 120

IsDigit(c) == c >= ChZero /\ c <= ChZero + 9

RECURSIVE Decimal(_)
\* fmt "%d" of a natural number
Decimal(n) ==
    IF n < 10 THEN <<ChZero + n>>
    ELSE Decimal(n \div 10) \o <<ChZero + (n % 10)>>

RECURSIVE ParseUint(_)
\* value of a non-empty string of decimal digits
ParseUint(s) ==
    IF Len(s) = 1 THEN s[1] - ChZero
    ELSE 10 * ParseUint(SubSeq(s, 1, Len(s) - 1)) + (s[Len(s)] - ChZero)

AllDigits(s) == Len(s) > 0 /\ \A i \in DOMAIN s : IsDigit(s[i])

\* Go's string order: a < b, byte-wise lexicographic
StrLess(a, b) ==
    \E k \in 1..(Len(b)) :
        /\ \A i \in 1..(k - 1) : i <= Len(a) /\ a[i] = b[i]
        /\ \/ k = Len(a) + 1
           \/ k <= Len(a) /\ a[k] < b[k]

----------------------------------------------------------------------------
(* pkg/addr: ISD-AS identifiers (decimal AS numbers only). *)

MaxISD == 65535

\* addr.IA.String: "<isd>-<as>"
IAString(ia) == Decimal(ia.ISD) \o <<ChDash>> \o Decimal(ia.AS)

\* addr.ParseIA: exactly one "-", a decimal ISD of 16 bits, a decimal AS
ParseIA(s) ==
    LET dashes == {i \in DOMAIN s : s[i] = ChDash}
        d == CHOOSE i \in dashes : TRUE
        isd == SubSeq(s, 1, d - 1)
        as == SubSeq(s, d + 1, Len(s))
        ok == /\ Cardinality(dashes) = 1
              /\ AllDigits(isd) /\ AllDigits(as)
              /\ ParseUint(isd) <= MaxISD
    IN IF ok THEN [ok |-> TRUE, ia |-> [ISD |-> ParseUint(isd), AS |-> ParseUint(as)]]
       ELSE [ok |-> FALSE, ia |-> [ISD |-> 0, AS |-> 0]]

----------------------------------------------------------------------------
(* control/beacon: the usage bitmask. *)

UsageUpReg == 1
UsageDownReg == 2
UsageCoreReg == 4
UsageProp == 8

HasBit(u, bit) == (u \div bit) % 2 = 1
\* u | bit, for a single-bit mask
OrBit(u, bit) == IF HasBit(u, bit) THEN u ELSE u + bit

\* the BeaconUsage tokens of the API
UpRegistration == "up_registration"
DownRegistration == "down_registration"
CoreRegistration == "core_registration"
Propagation == "propagation"

\* UnpackBeaconUsages: the tokens of the set bits, in the order Up, Down, Core, Prop
UnpackBeaconUsages(u) ==
    (IF HasBit(u, UsageUpReg) THEN <<UpRegistration>> ELSE <<>>)
    \o (IF HasBit(u, UsageDownReg) THEN <<DownRegistration>> ELSE <<>>)
    \o (IF HasBit(u, UsageCoreReg) THEN <<CoreRegistration>> ELSE <<>>)
    \o (IF HasBit(u, UsageProp) THEN <<Propagation>> ELSE <<>>)

----------------------------------------------------------------------------
(* The inputs of GetBeacons. *)

\* start_isd_as values: "1-1", "10-2" (well formed), "1" (no AS), "1-" (empty
\* AS), "x-1" (ISD not a number), "65536-1" (ISD out of range)
IAStrings ==
    { <<ChZero + 1, ChDash, ChZero + 1>>,
      <<ChZero + 1, ChZero, ChDash, ChZero + 2>>,
      <<ChZero + 1>>,
      <<ChZero + 1, ChDash>>,
      <<ChX, ChDash, ChZero + 1>>,
      Decimal(MaxISD + 1) \o <<ChDash, ChZero + 1>> }

\* `usages` tokens: the four of the API and two that are not ("Propagation"
\* differs from "propagation" only in case)
UsageTokens ==
    {UpRegistration, DownRegistration, CoreRegistration, Propagation,
     "Propagation", "bogus"}

\* `sort` keys: the five of sortFactory and one that is not
SortKeys ==
    {"expiration_time", "info_time", "start_isd_as", "last_updated",
     "ingress_interface", "hops"}

MaxIfID == 65535

IngressValues == {-1, 0, 7, MaxIfID, MaxIfID + 1}

\* the reading of time.Now() at line 167
RequestTimes == {1000}

OptBool == {Nil, Ref(TRUE), Ref(FALSE)}

NoParams ==
    [StartIsdAs |-> Nil, Usages |-> Nil, IngressInterface |-> Nil, All |-> Nil,
     ValidAt |-> Nil, Sort |-> Nil, Desc |-> Nil]

\* requests that vary the parameters the filter is built from
FilterParams ==
    [StartIsdAs : {Nil} \cup {Ref(s) : s \in IAStrings},
     Usages : {Nil} \cup {Ref(u) : u \in SeqsUpTo(UsageTokens, MaxUsages)},
     IngressInterface : {Nil} \cup {Ref(i) : i \in IngressValues},
     All : {Nil},
     ValidAt : {Nil},
     Sort : {Nil, Ref("info_time"), Ref("hops")},
     Desc : {Nil}]

\* requests that vary the validity selection
ValidityParams ==
    [StartIsdAs : {Nil}, Usages : {Nil}, IngressInterface : {Nil, Ref(-1)},
     All : OptBool,
     ValidAt : {Nil, Ref(500)},
     Sort : {Nil}, Desc : {Nil}]

\* every beacon.Usage made of the four flags
AllUsages == 0..(UsageUpReg + UsageDownReg + UsageCoreReg + UsageProp)

\* requests whose `usages` are the tokens UnpackBeaconUsages gives for a usage
UsageParams ==
    {[NoParams EXCEPT !.Usages = Ref(UnpackBeaconUsages(u))] : u \in AllUsages}

\* requests that vary the ordering of the result
SortParams ==
    [StartIsdAs : {Nil}, Usages : {Nil}, IngressInterface : {Nil},
     All : {Nil}, ValidAt : {Nil},
     Sort : {Nil} \cup {Ref(k) : k \in SortKeys},
     Desc : OptBool]

----------------------------------------------------------------------------
(* The beacon store. *)

IA(isd, as) == [ISD |-> isd, AS |-> as]
ASEntry(ia, in, eg) == [Local |-> ia, ConsIngress |-> in, ConsEgress |-> eg]

\* The beacons of the store: two segments without AS entries, two that start
\* at 2-1, one that starts at 10-1; each sort key has ties and differences.
StoredBeacons ==
    { [SegID |-> 1, InIfID |-> 1, Usage |-> UsageUpReg, LastUpdated |-> 10,
       Timestamp |-> 5, MinExpiry |-> 30, ASEntries |-> <<>>],
      [SegID |-> 2, InIfID |-> 2, Usage |-> UsageDownReg + UsageProp, LastUpdated |-> 10,
       Timestamp |-> 6, MinExpiry |-> 30, ASEntries |-> <<>>],
      [SegID |-> 3, InIfID |-> 1, Usage |-> UsageCoreReg, LastUpdated |-> 11,
       Timestamp |-> 5, MinExpiry |-> 31,
       ASEntries |-> <<ASEntry(IA(2, 1), 0, 3)>>],
      [SegID |-> 4, InIfID |-> 3, Usage |-> UsageProp, LastUpdated |-> 12,
       Timestamp |-> 7, MinExpiry |-> 30,
       ASEntries |-> <<ASEntry(IA(10, 1), 0, 1), ASEntry(IA(1, 1), 2, 0)>>],
      [SegID |-> 171, InIfID |-> 2, Usage |-> 0, LastUpdated |-> 11,
       Timestamp |-> 7, MinExpiry |-> 32,
       ASEntries |-> <<ASEntry(IA(2, 1), 0, 4), ASEntry(IA(1, 12), 5, 6),
                       ASEntry(IA(1, 1), 7, 0)>>] }

\* BeaconStore.GetBeacons: an error, or some of the stored beacons in an order
\* of the store's choosing
StoreOutcomes(n) ==
    {[err |-> TRUE, beacons |-> <<>>]}
    \cup {[err |-> FALSE, beacons |-> s] :
            s \in {t \in SeqsUpTo(StoredBeacons, n) : Injective(t)}}

BeaconRequests ==
    {[params |-> p, now |-> t, store |-> o] :
        p \in FilterParams \cup ValidityParams \cup UsageParams,
        t \in RequestTimes, o \in StoreOutcomes(1)}
    \cup {[params |-> p, now |-> t, store |-> o] :
        p \in SortParams, t \in RequestTimes, o \in StoreOutcomes(MaxResults)}

----------------------------------------------------------------------------
(* GetBeacons: building the store filter (api.go 119-172). *)

Err(msg, key, val) == [msg |-> msg, key |-> key, val |-> val]

EmptyQuery ==
    [SegIDs |-> <<>>, StartsAt |-> <<>>, Usages |-> <<>>,
     IngressInterfaces |-> <<>>, ValidAt |-> 0]

\* Go's conversion uint16(x) of an int
ToUint16(x) == x % (MaxIfID + 1)

\* lines 121-127
ParseStartIsdAs(p, acc) ==
    IF ~IsSet(p.StartIsdAs) THEN acc
    ELSE LET r == ParseIA(Deref(p.StartIsdAs))
         IN IF r.ok
            THEN [acc EXCEPT !.q.StartsAt = <<r.ia>>]
            ELSE [acc EXCEPT !.errs =
                      Append(@, Err("parsing start_isd_as", "start_isd_as",
                                    Deref(p.StartIsdAs)))]

RECURSIVE UsageLoopCoreAsDown(_, _)
\* a plausible slip: the core_registration case sets the flag of the case below it
UsageLoopCoreAsDown(flags, st) ==
    IF flags = <<>> THEN st
    ELSE LET f == Head(flags)
             next ==
                 CASE f = CoreRegistration ->
                        [st EXCEPT !.usage = OrBit(@, UsageDownReg)]
                   [] f = DownRegistration ->
                        [st EXCEPT !.usage = OrBit(@, UsageDownReg)]
                   [] f = Propagation ->
                        [st EXCEPT !.usage = OrBit(@, UsageProp)]
                   [] f = UpRegistration ->
                        [st EXCEPT !.usage = OrBit(@, UsageUpReg)]
                   [] OTHER ->
                        [st EXCEPT !.errs =
                            Append(@, Err("unknown value for parameter", "usage", <<f>>))]
         IN UsageLoopCoreAsDown(Tail(flags), next)

RECURSIVE UsageLoop(_, _)
\* lines 130-147: the loop over *params.Usages; st = [usage, errs]
UsageLoop(flags, st) ==
    IF flags = <<>> THEN st
    ELSE LET f == Head(flags)
             next ==
                 CASE f = CoreRegistration ->
                        [st EXCEPT !.usage = OrBit(@, UsageCoreReg)]
                   [] f = DownRegistration ->
                        [st EXCEPT !.usage = OrBit(@, UsageDownReg)]
                   [] f = Propagation ->
                        [st EXCEPT !.usage = OrBit(@, UsageProp)]
                   [] f = UpRegistration ->
                        [st EXCEPT !.usage = OrBit(@, UsageUpReg)]
                   [] OTHER ->
                        [st EXCEPT !.errs =
                            Append(@, Err("unknown value for parameter", "usage", <<f>>))]
         IN UsageLoop(Tail(flags), next)

\* lines 128-149
ParseUsages(p, acc) ==
    IF ~IsSet(p.Usages) THEN acc
    ELSE LET st == UsageLoop(Deref(p.Usages), [usage |-> 0, errs |-> acc.errs])
         IN [acc EXCEPT !.errs = st.errs, !.q.Usages = <<st.usage>>]

\* a plausible slip: the upper limit off by one
ParseIngressInterfaceOffByOne(p, acc) ==
    IF ~IsSet(p.IngressInterface) THEN acc
    ELSE LET v == Deref(p.IngressInterface)
             e == IF v < 0 \/ v > MaxIfID + 1
                  THEN Append(acc.errs,
                              Err("value for parameter out of range",
                                  "ingress_interface", <<v>>))
                  ELSE acc.errs
         IN [acc EXCEPT !.errs = e, !.q.IngressInterfaces = <<ToUint16(v)>>]

\* lines 151-160
ParseIngressInterface(p, acc) ==
    IF ~IsSet(p.IngressInterface) THEN acc
    ELSE LET v == Deref(p.IngressInterface)
             e == IF v < 0 \/ v > MaxIfID
                  THEN Append(acc.errs,
                              Err("value for parameter out of range",
                                  "ingress_interface", <<v>>))
                  ELSE acc.errs
         IN [acc EXCEPT !.errs = e, !.q.IngressInterfaces = <<ToUint16(v)>>]

\* lines 161-168; the zero time.Time is 0
SelectValidAt(p, now, acc) ==
    CASE IsSet(p.All) /\ Deref(p.All) -> [acc EXCEPT !.q.ValidAt = 0]
      [] IsSet(p.ValidAt) -> [acc EXCEPT !.q.ValidAt = Deref(p.ValidAt)]
      [] OTHER -> [acc EXCEPT !.q.ValidAt = now]

\* sortFactory, lines 255-294: the key it sorts by, or the error
sortFactory(sortParam) ==
    LET by == IF IsSet(sortParam) THEN Deref(sortParam) ELSE "last_updated"
    IN IF by \in {"expiration_time", "info_time", "start_isd_as", "last_updated",
                  "ingress_interface"}
       THEN [ok |-> TRUE, by |-> by, err |-> Nil]
       ELSE [ok |-> FALSE, by |-> by,
             err |-> Ref(Err("unknown query parameter", "sort", <<by>>))]

\* lines 169-172
ResolveSort(p, acc) ==
    LET f == sortFactory(p.Sort)
    IN IF f.ok THEN acc ELSE [acc EXCEPT !.errs = Append(@, Deref(f.err))]

\* lines 119-172: the filter and the error list after every field is processed
BuildFilter(p, now) ==
    ResolveSort(p,
        SelectValidAt(p, now,
            ParseIngressInterface(p,
                ParseUsages(p,
                    ParseStartIsdAs(p, [q |-> EmptyQuery, errs |-> <<>>])))))

----------------------------------------------------------------------------
(* GetBeacons: projecting the stored beacons (api.go 194-223). *)

ChLowerA == 97

HexDigit(d) == IF d < 10 THEN ChZero + d ELSE ChLowerA + (d - 10)

\* segapi.SegID: the segment ID (one byte here) as lower-case hex
SegIDHex(id) == <<HexDigit(id \div 16), HexDigit(id % 16)>>

RECURSIVE HopsOf(_, _)
\* lines 201-213: the first AS entry gives its egress, every later one its
\* ingress and then its egress
HopsOf(entries, i) ==
    IF i > Len(entries) THEN <<>>
    ELSE LET as == entries[i]
             in == IF i # 1
                   THEN <<[Interface |-> as.ConsIngress, IsdAs |-> IAString(as.Local)]>>
                   ELSE <<>>
             eg == <<[Interface |-> as.ConsEgress, IsdAs |-> IAString(as.Local)]>>
         IN in \o eg \o HopsOf(entries, i + 1)

\* lines 196-222; the times are instants, which UTC() does not change
ProjectBeacon(result) ==
    [Usages |-> UnpackBeaconUsages(result.Usage),
     IngressInterface |-> result.InIfID,
     Id |-> SegIDHex(result.SegID),
     LastUpdated |-> result.LastUpdated,
     Timestamp |-> result.Timestamp,
     Expiration |-> result.MinExpiry,
     Hops |-> HopsOf(result.ASEntries, 1)]

\* lines 194-223
ProjectAll(res) == [i \in DOMAIN res |-> ProjectBeacon(res[i])]

----------------------------------------------------------------------------
(* GetBeacons: sorting (api.go 224-229, 243-294). *)

\* a plausible slip: start_isd_as compares the last hop, not the first
LessByLastHop(by, a, b) ==
    CASE by = "expiration_time" -> a.Expiration < b.Expiration
      [] by = "info_time" -> a.Timestamp < b.Timestamp
      [] by = "start_isd_as" ->
            IF Len(a.Hops) = 0 \/ Len(b.Hops) = 0
            THEN Len(a.Hops) < Len(b.Hops)
            ELSE StrLess(a.Hops[Len(a.Hops)].IsdAs, b.Hops[Len(b.Hops)].IsdAs)
      [] by = "last_updated" -> a.LastUpdated < b.LastUpdated
      [] by = "ingress_interface" -> a.IngressInterface < b.IngressInterface

\* the less functions of sortFactory, lines 261-284
LessBy(by, a, b) ==
    CASE by = "expiration_time" -> a.Expiration < b.Expiration
      [] by = "info_time" -> a.Timestamp < b.Timestamp
      [] by = "start_isd_as" ->
            IF Len(a.Hops) = 0 \/ Len(b.Hops) = 0
            THEN Len(a.Hops) < Len(b.Hops)
            ELSE StrLess(a.Hops[1].IsdAs, b.Hops[1].IsdAs)
      [] by = "last_updated" -> a.LastUpdated < b.LastUpdated
      [] by = "ingress_interface" -> a.IngressInterface < b.IngressInterface

\* a plausible slip: desc given (even as false) reverses the order
SorterDescPresent(rep, by, desc) ==
    [beacons |-> rep, by |-> by, reversed |-> IsSet(desc)]

\* lines 225-228: the sortWrapper, under sort.Reverse when desc is set and true
Sorter(rep, by, desc) ==
    [beacons |-> rep, by |-> by, reversed |-> IsSet(desc) /\ Deref(desc)]

\* sortWrapper.Less (line 249) and the Less of sort.Reverse, on two beacons
SorterLess(sorter, a, b) ==
    IF sorter.reversed THEN LessBy(sorter.by, b, a) ELSE LessBy(sorter.by, a, b)

\* sort.Sort (line 229): the data rearranged by Swap into an order in which no
\* element is Less than one before it.  sort.Sort is not a stable sort: which
\* of these orders it leaves is not determined by its contract.
SortSort(sorter) ==
    LET data == sorter.beacons
        n == Len(data)
    IN { [i \in 1..n |-> data[pi[i]]] : pi \in
           { f \in Permutations(1..n) :
               \A i, j \in 1..n :
                   i < j => ~SorterLess(sorter, data[f[j]], data[f[i]]) } }

----------------------------------------------------------------------------
(* Responses. *)

StatusOK == 200
StatusBadRequest == 400
StatusInternalServerError == 500

\* ErrorResponse, lines 853-860
ErrorResponse(status, title) == [status |-> status, title |-> title, body |-> Nil]

\* a body written with the json encoder; the status is then 200
JSONResponse(body) == [status |-> StatusOK, title |-> "", body |-> Ref(body)]

NoResponse == [status |-> 0, title |-> "", body |-> Nil]

----------------------------------------------------------------------------
(* The GetBeacons handler, api.go 118-241. *)

\* a plausible slip: testing the err of sortFactory (line 170) instead of the list
ValidationFailedSortOnly(b, f) == ~f.ok

\* line 174: errs.ToError() != nil, which is so when the list is not empty
ValidationFailed(b, f) == b.errs # <<>>

GetBeaconsWith(req) ==
    LET b == BuildFilter(req.params, req.now)
        f == sortFactory(req.params.Sort)
    IN /\ handler' = "GetBeacons"
       /\ params' = req.params
       /\ errs' = b.errs
       /\ UNCHANGED <<probes, clock>>
       /\ IF ValidationFailed(b, f)
          THEN \* lines 174-182
               /\ resp' = ErrorResponse(StatusBadRequest, "malformed query parameters")
               /\ UNCHANGED <<storeCalls, results, storeErr>>
          ELSE \* line 183
               /\ storeCalls' = Append(storeCalls, b.q)
               /\ storeErr' = req.store.err
               /\ IF req.store.err
                  THEN \* lines 184-192
                       /\ results' = <<>>
                       /\ resp' = ErrorResponse(StatusInternalServerError,
                                                "error getting beacons")
                  ELSE \* lines 194-240
                       /\ results' = req.store.beacons
                       /\ \E sorted \in SortSort(Sorter(ProjectAll(req.store.beacons),
                                                        f.by, req.params.Desc)) :
                              resp' = JSONResponse(sorted)

GetBeacons ==
    /\ pc = "idle"
    /\ pc' = "done"
    /\ \E req \in BeaconRequests : GetBeaconsWith(req)

----------------------------------------------------------------------------
(* The GetBeacon handler, api.go 295-384. *)

ChUpperA == 65

\* the value of a hex digit, or -1
HexValue(c) ==
    IF IsDigit(c) THEN c - ChZero
    ELSE IF c >= ChLowerA /\ c <= ChLowerA + 5 THEN c - ChLowerA + 10
    ELSE IF c >= ChUpperA /\ c <= ChUpperA + 5 THEN c - ChUpperA + 10
    ELSE -1

\* hex.DecodeString (line 296): the bytes, or an error for an odd length or a
\* character that is no hex digit
HexDecodeString(s) ==
    IF Len(s) % 2 = 0 /\ \A i \in DOMAIN s : HexValue(s[i]) >= 0
    THEN [ok |-> TRUE,
          bytes |-> [i \in 1..(Len(s) \div 2) |->
                        16 * HexValue(s[2 * i - 1]) + HexValue(s[2 * i])]]
    ELSE [ok |-> FALSE, bytes |-> <<>>]

\* segment IDs of requests: "01", "ab", "AB", "", "0" (odd length), "x1"
SegmentIDs ==
    { <<ChZero, ChZero + 1>>,
      <<ChLowerA, ChLowerA + 1>>,
      <<ChUpperA, ChUpperA + 1>>,
      <<>>,
      <<ChZero>>,
      <<ChX, ChZero + 1>> }

\* BeaconStore.GetBeacons as GetBeacon sees it: some stored beacons in some
\* order and, possibly, an error beside them
LookupOutcomes ==
    [err : BOOLEAN,
     beacons : {t \in SeqsUpTo(StoredBeacons, MaxResults) : Injective(t)}]

\* a plausible slip: several matches are reported as an internal error
LookupResponseManyInternal(segmentId, store) ==
    IF store.err
    THEN ErrorResponse(StatusInternalServerError, "error getting beacons")
    ELSE IF Len(store.beacons) = 0
    THEN ErrorResponse(StatusBadRequest, "malformed query parameter")
    ELSE IF Len(store.beacons) > 1
    THEN ErrorResponse(StatusInternalServerError, "malformed query parameter")
    ELSE JSONResponse([beacon |-> ProjectBeacon(store.beacons[1])])

\* lines 309-383: the response once the store has answered
LookupResponse(segmentId, store) ==
    IF store.err
    THEN \* lines 310-318
         ErrorResponse(StatusInternalServerError, "error getting beacons")
    ELSE IF Len(store.beacons) = 0
    THEN \* lines 319-330
         ErrorResponse(StatusBadRequest, "malformed query parameter")
    ELSE IF Len(store.beacons) > 1
    THEN \* lines 331-343
         ErrorResponse(StatusBadRequest, "malformed query parameter")
    ELSE \* lines 344-383
         JSONResponse([beacon |-> ProjectBeacon(store.beacons[1])])

GetBeaconWith(segmentId, store) ==
    LET id == HexDecodeString(segmentId)
    IN /\ handler' = "GetBeacon"
       /\ params' = [SegmentId |-> segmentId]
       /\ UNCHANGED <<errs, probes, clock>>
       /\ IF ~id.ok
          THEN \* lines 297-305
               /\ resp' = ErrorResponse(StatusBadRequest, "error decoding segment id")
               /\ UNCHANGED <<storeCalls, results, storeErr>>
          ELSE \* lines 306-309
               /\ storeCalls' = Append(storeCalls, [EmptyQuery EXCEPT !.SegIDs = <<id.bytes>>])
               /\ results' = store.beacons
               /\ storeErr' = store.err
               /\ resp' = LookupResponse(segmentId, store)

GetBeacon ==
    /\ pc = "idle"
    /\ pc' = "done"
    /\ \E segmentId \in SegmentIDs, store \in LookupOutcomes :
          GetBeaconWith(segmentId, store)

----------------------------------------------------------------------------
(* The inputs of GetHealth. *)

Passing == "passing"
Degraded == "degraded"
Failing == "failing"

Available == "available"
Starting == "starting"
Stopping == "stopping"
Unavailable == "unavailable"

\* 6*time.Hour (line 774), in seconds
SixHours == 6 * 3600
ThirtyDays == 30 * 24 * 3600

\* the first reading of time.Now()
HealthTimes == {1000000}

\* Expiration - now: expired a second ago, expiring now, in a second, in 3 h,
\* a second short of 6 h, in 6 h, a second more, in 30 days
ExpiryOffsets == {-1, 0, 1, 3 * 3600, SixHours - 1, SixHours, SixHours + 1, ThirtyDays}

SignerHealthData ==
    [SignerMissing : BOOLEAN,
     SignerMissingDetail : {"", "no signer"},
     Expiration : {t + d : t \in HealthTimes, d \in ExpiryOffsets},
     InGrace : BOOLEAN]

TRCHealthData ==
    [TRCNotFound : BOOLEAN,
     TRCNotFoundDetail : {"", "TRC not found"},
     TRCID : {[ISD |-> 1, Base |-> 1, Serial |-> 1], [ISD |-> 2, Base |-> 1, Serial |-> 3]}]

\* GetCAHealth: (status, ok); "" is the zero CAHealthStatus
CAHealth ==
    [status : {Available, Starting, Stopping, Unavailable, ""}, ok : BOOLEAN]

NoProbes ==
    [signer |-> [SignerMissing |-> FALSE, SignerMissingDetail |-> "", Expiration |-> 0,
                 InGrace |-> FALSE],
     trc |-> [TRCNotFound |-> FALSE, TRCNotFoundDetail |-> "",
              TRCID |-> [ISD |-> 0, Base |-> 0, Serial |-> 0]],
     ca |-> [status |-> "", ok |-> FALSE]]

----------------------------------------------------------------------------
(* The GetHealth handler, api.go 745-843. *)

\* api.StringRef(s) for a detail that is set only when s # ""
DetailIfAny(s) == IF s # "" THEN Ref(s) ELSE Nil

\* time.Until(t) at the reading `now` of the clock
Until(t, now) == t - now

\* Expiration.Format(time.RFC3339): the instant to the second, which is the
\* resolution of the model's times
FormatRFC3339(t) == t

\* a plausible slip: the grace period is tested before the expiration
SignerCheckGraceFirst(sh, now1, now2) ==
    LET name == "valid signer available"
    IN CASE sh.SignerMissing ->
              [Name |-> name, Status |-> Failing,
               Detail |-> DetailIfAny(sh.SignerMissingDetail), Data |-> Nil]
         [] sh.InGrace ->
              [Name |-> name, Status |-> Degraded,
               Detail |-> Ref("signer certificate is authenticated by TRC in grace period"),
               Data |-> Ref([expires_at |-> FormatRFC3339(sh.Expiration),
                             in_grace |-> TRUE])]
         [] Until(sh.Expiration, now1) <= 0 ->
              [Name |-> name, Status |-> Failing,
               Detail |-> Ref("signer certificate has expired"),
               Data |-> Ref([expires_at |-> FormatRFC3339(sh.Expiration)])]
         [] Until(sh.Expiration, now2) < SixHours ->
              [Name |-> name, Status |-> Degraded,
               Detail |-> Ref("signer certificate is close to expiration"),
               Data |-> Ref([expires_at |-> FormatRFC3339(sh.Expiration)])]
         [] OTHER ->
              [Name |-> name, Status |-> Passing, Detail |-> Nil,
               Data |-> Ref([expires_at |-> FormatRFC3339(sh.Expiration)])]

\* lines 750-784; now1 and now2 are the clock at lines 760 and 774
SignerCheck(sh, now1, now2) ==
    LET name == "valid signer available"
    IN CASE sh.SignerMissing ->
              [Name |-> name, Status |-> Failing,
               Detail |-> DetailIfAny(sh.SignerMissingDetail), Data |-> Nil]
         [] Until(sh.Expiration, now1) <= 0 ->
              [Name |-> name, Status |-> Failing,
               Detail |-> Ref("signer certificate has expired"),
               Data |-> Ref([expires_at |-> FormatRFC3339(sh.Expiration)])]
         [] sh.InGrace ->
              [Name |-> name, Status |-> Degraded,
               Detail |-> Ref("signer certificate is authenticated by TRC in grace period"),
               Data |-> Ref([expires_at |-> FormatRFC3339(sh.Expiration),
                             in_grace |-> TRUE])]
         [] Until(sh.Expiration, now2) < SixHours ->
              [Name |-> name, Status |-> Degraded,
               Detail |-> Ref("signer certificate is close to expiration"),
               Data |-> Ref([expires_at |-> FormatRFC3339(sh.Expiration)])]
         [] OTHER ->
              [Name |-> name, Status |-> Passing, Detail |-> Nil,
               Data |-> Ref([expires_at |-> FormatRFC3339(sh.Expiration)])]

\* a plausible slip: the TRC ID is attached whether or not a TRC was found
TRCCheckAlwaysData(th) ==
    [Name |-> "TRC for local ISD available",
     Status |-> IF ~th.TRCNotFound THEN Passing ELSE Failing,
     Detail |-> DetailIfAny(th.TRCNotFoundDetail),
     Data |-> Ref([base_number |-> th.TRCID.Base,
                   serial_number |-> th.TRCID.Serial,
                   isd |-> th.TRCID.ISD])]

\* lines 787-802
TRCCheck(th) ==
    [Name |-> "TRC for local ISD available",
     Status |-> IF ~th.TRCNotFound THEN Passing ELSE Failing,
     Detail |-> DetailIfAny(th.TRCNotFoundDetail),
     Data |-> IF ~th.TRCNotFound
              THEN Ref([base_number |-> th.TRCID.Base,
                        serial_number |-> th.TRCID.Serial,
                        isd |-> th.TRCID.ISD])
              ELSE Nil]

\* a plausible slip: an unavailable CA fails the check
CACheckUnavailableFails(status) ==
    [Name |-> "CPPKI CA Connection",
     Status |-> IF status = Available THEN Passing
                ELSE IF status = Unavailable THEN Failing ELSE Degraded,
     Detail |-> Nil,
     Data |-> Ref([status |-> status])]

\* lines 806-815
CACheck(status) ==
    [Name |-> "CPPKI CA Connection",
     Status |-> IF status = Available THEN Passing ELSE Degraded,
     Detail |-> Nil,
     Data |-> Ref([status |-> status])]

\* a plausible slip: the CA check is appended whatever GetCAHealth's ok is
HealthChecksAlwaysCA(pr, now1, now2) ==
    <<SignerCheck(pr.signer, now1, now2), TRCCheck(pr.trc), CACheck(pr.ca.status)>>

\* lines 747-817: the checks, appended in this order
HealthChecks(pr, now1, now2) ==
    <<SignerCheck(pr.signer, now1, now2), TRCCheck(pr.trc)>>
    \o (IF pr.ca.ok THEN <<CACheck(pr.ca.status)>> ELSE <<>>)

\* a plausible slip: the loop stops before the last check
CheckStatusesButLast(checks) == [i \in 1..(Len(checks) - 1) |-> checks[i].Status]

\* lines 821-827: the statuses handed to AggregateHealthStatus
CheckStatuses(checks) == [i \in DOMAIN checks |-> checks[i].Status]

\* healthapi.AggregateHealthStatus: the least healthy of the statuses
AggregateHealthStatus(statuses) ==
    IF \E i \in DOMAIN statuses : statuses[i] = Failing THEN Failing
    ELSE IF \E i \in DOMAIN statuses : statuses[i] = Degraded THEN Degraded
    ELSE Passing

\* lines 818-831
HealthResponse(checks) ==
    [Status |-> AggregateHealthStatus(CheckStatuses(checks)), Checks |-> checks]

GetHealth ==
    /\ pc = "idle"
    /\ pc' = "done"
    /\ handler' = "GetHealth"
    /\ \E sh \in SignerHealthData, th \in TRCHealthData, ca \in CAHealth,
          now1 \in HealthTimes, elapsed \in 0..MaxElapsed :
          /\ probes' = [signer |-> sh, trc |-> th, ca |-> ca]
          /\ clock' = [first |-> now1, second |-> now1 + elapsed]
          /\ resp' = JSONResponse(
                        HealthResponse(HealthChecks(probes', now1, now1 + elapsed)))
    /\ UNCHANGED <<params, errs, storeCalls, results, storeErr>>

----------------------------------------------------------------------------
(* The server. *)

Init ==
    /\ pc = "idle"
    /\ handler = ""
    /\ params = NoParams
    /\ errs = <<>>
    /\ storeCalls = <<>>
    /\ results = <<>>
    /\ storeErr = FALSE
    /\ resp = NoResponse
    /\ probes = NoProbes
    /\ clock = [first |-> 0, second |-> 0]

\* the response is on the wire; the server waits for the next request
Finish ==
    /\ pc = "done"
    /\ pc' = "idle"
    /\ handler' = ""
    /\ params' = NoParams
    /\ errs' = <<>>
    /\ storeCalls' = <<>>
    /\ results' = <<>>
    /\ storeErr' = FALSE
    /\ resp' = NoResponse
    /\ probes' = NoProbes
    /\ clock' = [first |-> 0, second |-> 0]

Next ==
    \/ GetBeacons
    \/ GetBeacon
    \/ GetHealth
    \/ Finish

Spec == Init /\ [][Next]_vars

----------------------------------------------------------------------------
(* Claims about GetBeacons. *)

BeaconsDone == pc = "done" /\ handler = "GetBeacons"

\* how many of the accumulated errors are about the parameter `key`
ErrCount(key) == Cardinality({i \in DOMAIN errs : errs[i].key = key})

KnownTokens == {UpRegistration, DownRegistration, CoreRegistration, Propagation}
KnownSortKeys ==
    {"expiration_time", "info_time", "start_isd_as", "last_updated", "ingress_interface"}

BadStartIsdAs == IsSet(params.StartIsdAs) /\ ~ParseIA(Deref(params.StartIsdAs)).ok
UnknownUsages ==
    IF IsSet(params.Usages)
    THEN {i \in DOMAIN Deref(params.Usages) : Deref(params.Usages)[i] \notin KnownTokens}
    ELSE {}
BadIngress ==
    /\ IsSet(params.IngressInterface)
    /\ (Deref(params.IngressInterface) < 0 \/ Deref(params.IngressInterface) > 65535)
BadSort == IsSet(params.Sort) /\ Deref(params.Sort) \notin KnownSortKeys

One(b) == IF b THEN 1 ELSE 0

\* C1: GetBeacons collects every validation error: the error list holds exactly
\* one entry for an unparsable start_isd_as, one per unknown usage token, one
\* for an ingress_interface outside [0, 65535], one for an unknown sort key,
\* and nothing else.
C1_AllErrorsCollected ==
    BeaconsDone =>
        /\ ErrCount("start_isd_as") = One(BadStartIsdAs)
        /\ ErrCount("usage") = Cardinality(UnknownUsages)
        /\ \A i \in UnknownUsages :
              \E k \in DOMAIN errs :
                  errs[k].key = "usage" /\ errs[k].val = <<Deref(params.Usages)[i]>>
        /\ ErrCount("ingress_interface") = One(BadIngress)
        /\ ErrCount("sort") = One(BadSort)
        /\ Len(errs) = One(BadStartIsdAs) + Cardinality(UnknownUsages)
                       + One(BadIngress) + One(BadSort)

\* a request with every kind of malformed parameter: five errors
C1_Witness ==
    /\ BeaconsDone
    /\ BadStartIsdAs /\ Cardinality(UnknownUsages) = 2 /\ BadIngress /\ BadSort
    /\ Len(errs) = 5

\* C2: filter building fails atomically: with a non-empty error list the
\* response is a 400 problem without a beacon list and the store was not
\* queried; the store is queried only with an empty error list.
C2_FailsAtomically ==
    BeaconsDone =>
        /\ errs # <<>> =>
              /\ resp.status = StatusBadRequest
              /\ resp.body = Nil
              /\ storeCalls = <<>>
        /\ storeCalls # <<>> => errs = <<>>
        /\ errs = <<>> => Len(storeCalls) = 1

\* a bad ingress_interface alone: the filter is partially built, the store idle
C2_Witness ==
    /\ BeaconsDone
    /\ Len(errs) = 1 /\ BadIngress
    /\ resp.status = StatusBadRequest /\ storeCalls = <<>>

\* a GetBeacons request answered with a beacon list
BeaconsListed == BeaconsDone /\ IsSet(resp.body)
Listed == Deref(resp.body)

\* the sort key in effect and the direction asked for
SortKey == IF IsSet(params.Sort) THEN Deref(params.Sort) ELSE "last_updated"
Descending == IsSet(params.Desc) /\ Deref(params.Desc)

\* a's key is at most b's key
KeyLeq(by, a, b) ==
    CASE by = "expiration_time" -> a.Expiration <= b.Expiration
      [] by = "info_time" -> a.Timestamp <= b.Timestamp
      [] by = "last_updated" -> a.LastUpdated <= b.LastUpdated
      [] by = "ingress_interface" -> a.IngressInterface <= b.IngressInterface
      [] by = "start_isd_as" ->
            \/ Len(a.Hops) = 0
            \/ /\ Len(b.Hops) > 0
               /\ ~StrLess(b.Hops[1].IsdAs, a.Hops[1].IsdAs)
KeyEq(by, a, b) == KeyLeq(by, a, b) /\ KeyLeq(by, b, a)

\* the place in the store's answer of the i-th listed beacon
StorePos(i) == CHOOSE k \in DOMAIN results : ProjectBeacon(results[k]) = Listed[i]

C4_SortedPermutation ==
    BeaconsListed =>
        /\ Len(Listed) = Len(results)
        /\ \A k \in DOMAIN results :
              Cardinality({i \in DOMAIN Listed : Listed[i] = ProjectBeacon(results[k])}) = 1
        /\ SortKey \in KnownSortKeys
        /\ \A i, j \in DOMAIN Listed :
              i < j => IF Descending THEN KeyLeq(SortKey, Listed[j], Listed[i])
                       ELSE KeyLeq(SortKey, Listed[i], Listed[j])
        /\ (Descending /\ \A i, j \in DOMAIN Listed :
                              i # j => ~KeyEq(SortKey, Listed[i], Listed[j]))
              => \A asc \in SortSort(Sorter(ProjectAll(results), SortKey, Nil)) :
                    Listed = Reverse(asc)

\* three beacons with distinct last_updated, listed newest first
C4_Witness ==
    /\ BeaconsListed /\ Descending /\ ~IsSet(params.Sort)
    /\ Len(Listed) = 3
    /\ Listed[1].LastUpdated > Listed[2].LastUpdated
    /\ Listed[2].LastUpdated > Listed[3].LastUpdated
    /\ StorePos(1) = 2

\* C5: sorted by start_isd_as ascending, a beacon without hops is before every
\* beacon with hops, and beacons with hops are in the string order of their
\* first hop's ISD-AS.
C5_StartIsdAsOrder ==
    (BeaconsListed /\ SortKey = "start_isd_as" /\ ~Descending) =>
        \A i, j \in DOMAIN Listed :
            i < j =>
                /\ Len(Listed[j].Hops) = 0 => Len(Listed[i].Hops) = 0
                /\ (Len(Listed[i].Hops) > 0 /\ Len(Listed[j].Hops) > 0)
                      => ~StrLess(Listed[j].Hops[1].IsdAs, Listed[i].Hops[1].IsdAs)

\* "10-1" is listed before "2-1" and after a beacon without hops, though the
\* store returned them the other way round
C5_Witness ==
    /\ BeaconsListed /\ SortKey = "start_isd_as" /\ ~Descending
    /\ Len(Listed) = 3
    /\ Len(Listed[1].Hops) = 0
    /\ Len(Listed[2].Hops) > 0 /\ Len(Listed[3].Hops) > 0
    /\ Listed[2].Hops[1].IsdAs = IAString(IA(10, 1))
    /\ Listed[3].Hops[1].IsdAs = IAString(IA(2, 1))
    /\ StorePos(1) = 3 /\ StorePos(2) = 2

\* the flag a token of the API stands for
FlagOf(token) ==
    CASE token = "up_registration" -> 1
      [] token = "down_registration" -> 2
      [] token = "core_registration" -> 4
      [] token = "propagation" -> 8

\* the tokens of the flags set in u, in the order Up, Down, Core, Propagation
TokensInOrder(u) ==
    LET IsIn(token) == (u \div FlagOf(token)) % 2 = 1
    IN SelectSeq(<<"up_registration", "down_registration", "core_registration",
                   "propagation">>, IsIn)

\* C11: for every bitmask u of the four flags, UnpackBeaconUsages(u) is the
\* tokens of exactly the set bits in the order Up, Down, Core, Propagation,
\* and a GetBeacons request with these tokens as its usages has no validation
\* error (about its usages, and none at all when its other parameters are well
\* formed) and queries the store with the single usage predicate u.
C11_UsageRoundTrip ==
    BeaconsDone =>
        \A u \in 0..15 :
            params.Usages = Ref(UnpackBeaconUsages(u)) =>
                /\ Deref(params.Usages) = TokensInOrder(u)
                /\ ErrCount("usage") = 0
                \* unless another parameter of the request is malformed
                /\ (~BadStartIsdAs /\ ~BadIngress /\ ~BadSort) =>
                      /\ errs = <<>>
                      /\ Len(storeCalls) = 1
                      /\ storeCalls[1].Usages = <<u>>

\* the tokens of all four flags come back as the bitmask 15
C11_Witness ==
    /\ BeaconsDone
    /\ params.Usages = Ref(<<"up_registration", "down_registration",
                              "core_registration", "propagation">>)
    /\ errs = <<>>
    /\ storeCalls[1].Usages = <<15>>

----------------------------------------------------------------------------
(* Claims about GetBeacon. *)

LookupDone == pc = "done" /\ handler = "GetBeacon"
StoreAsked == storeCalls # <<>>

\* C12: GetBeacon succeeds only when the store returns exactly one record; 0
\* records or more than 1 are answered with a 400, never a 500; an error of the
\* store is answered with a 500 whatever came with it.
C12_ExactLookup ==
    LookupDone =>
        /\ resp.status \in {200, 400, 500}
        /\ resp.status = 200 => (StoreAsked /\ ~storeErr /\ Len(results) = 1)
        /\ (StoreAsked /\ ~storeErr /\ Len(results) # 1) =>
              /\ resp.status = 400
              /\ resp.title = "malformed query parameter"
              /\ resp.body = Nil
        /\ (StoreAsked /\ storeErr) =>
              /\ resp.status = 500
              /\ resp.title = "error getting beacons"
              /\ resp.body = Nil

\* two records for one segment ID: a 400
C12_Witness ==
    /\ LookupDone /\ StoreAsked /\ ~storeErr
    /\ Len(results) = 2
    /\ resp.status = 400

\* the store fails although it hands back one record: a 500
C12_WitnessStoreError ==
    /\ LookupDone /\ storeErr /\ Len(results) = 1 /\ resp.status = 500

----------------------------------------------------------------------------
(* Claims about GetHealth. *)

HealthDone == pc = "done" /\ handler = "GetHealth"
Report == Deref(resp.body)
Checks == Report.Checks

SignerName == "valid signer available"
TRCName == "TRC for local ISD available"
CAName == "CPPKI CA Connection"

\* the check of the report with the given name
CheckNamed(name) == Checks[CHOOSE i \in DOMAIN Checks : Checks[i].Name = name]
HasCheck(name) == \E i \in DOMAIN Checks : Checks[i].Name = name

\* C6: the signer check is decided by the first rule that matches: signer
\* missing -> Failing; expiration <= now -> Failing, "signer certificate has
\* expired"; in grace -> Degraded; expiration less than 6 h after now ->
\* Degraded, "... close to expiration"; otherwise Passing.  Each "now" is the
\* clock when the rule is evaluated.
C6_SignerPrecedence ==
    HealthDone =>
        LET c == CheckNamed(SignerName)
            sh == probes.signer
        IN /\ HasCheck(SignerName)
           /\ sh.SignerMissing => c.Status = Failing
           /\ (~sh.SignerMissing /\ sh.Expiration <= clock.first) =>
                 /\ c.Status = Failing
                 /\ c.Detail = Ref("signer certificate has expired")
           /\ (~sh.SignerMissing /\ sh.Expiration > clock.first /\ sh.InGrace) =>
                 c.Status = Degraded
           /\ (~sh.SignerMissing /\ sh.Expiration > clock.first /\ ~sh.InGrace
                 /\ sh.Expiration < clock.second + 6 * 3600) =>
                 /\ c.Status = Degraded
                 /\ c.Detail = Ref("signer certificate is close to expiration")
           /\ (~sh.SignerMissing /\ sh.Expiration > clock.first /\ ~sh.InGrace
                 /\ sh.Expiration >= clock.second + 6 * 3600) =>
                 c.Status = Passing
           \* the cases the claim names
           /\ (~sh.SignerMissing /\ ~sh.InGrace) =>
                 /\ sh.Expiration = clock.first - 1 => c.Status = Failing
                 /\ sh.Expiration = clock.first + 3 * 3600 => c.Status = Degraded
                 /\ sh.Expiration = clock.first + 30 * 24 * 3600 => c.Status = Passing
           /\ (~sh.SignerMissing /\ sh.InGrace
                 /\ sh.Expiration = clock.first + 30 * 24 * 3600) => c.Status = Degraded

\* an expired signer whose TRC is in its grace period: Failing, not Degraded
C6_Witness ==
    /\ HealthDone
    /\ ~probes.signer.SignerMissing /\ probes.signer.InGrace
    /\ probes.signer.Expiration = clock.first - 1
    /\ CheckNamed(SignerName).Status = Failing

\* C7: the TRC check is Passing exactly when the probe found the TRC and
\* Failing otherwise; it carries (ISD, base, serial) exactly when it is Passing.
C7_TRCCheck ==
    HealthDone =>
        LET c == CheckNamed(TRCName)
            th == probes.trc
        IN /\ HasCheck(TRCName)
           /\ c.Status = (IF th.TRCNotFound THEN Failing ELSE Passing)
           /\ c.Status = Passing =>
                 c.Data = Ref([isd |-> th.TRCID.ISD, base_number |-> th.TRCID.Base,
                               serial_number |-> th.TRCID.Serial])
           /\ c.Status = Failing => c.Data = Nil

\* both outcomes are reached: this one is the TRC 2-b1-s3 found
C7_Witness ==
    /\ HealthDone
    /\ ~probes.trc.TRCNotFound
    /\ CheckNamed(TRCName).Status = Passing
    /\ CheckNamed(TRCName).Data = Ref([isd |-> 2, base_number |-> 1, serial_number |-> 3])

\* C8: the CA check is Passing when the CA is Available and Degraded in every
\* other state, always carries the state as data and is never Failing; alone
\* it never makes the overall status Failing.
C8_CACheck ==
    (HealthDone /\ probes.ca.ok) =>
        LET c == CheckNamed(CAName)
        IN /\ HasCheck(CAName)
           /\ c.Status = (IF probes.ca.status = "available" THEN Passing ELSE Degraded)
           /\ c.Data = Ref([status |-> probes.ca.status])
           /\ c.Status # Failing
           /\ (CheckNamed(SignerName).Status # Failing
                 /\ CheckNamed(TRCName).Status # Failing) => Report.Status # Failing

\* an unavailable CA beside a passing signer and TRC: Degraded overall
C8_Witness ==
    /\ HealthDone /\ probes.ca.ok /\ probes.ca.status = "unavailable"
    /\ CheckNamed(CAName).Status = Degraded
    /\ CheckNamed(SignerName).Status = Passing
    /\ CheckNamed(TRCName).Status = Passing
    /\ Report.Status = Degraded

\* the statuses of the checks the probes call for, whether reported or not
IncludedStatuses ==
    {CheckNamed(SignerName).Status, CheckNamed(TRCName).Status}
    \cup (IF probes.ca.ok
          THEN {IF probes.ca.status = "available" THEN Passing ELSE Degraded}
          ELSE {})

\* C9: the overall status is the least healthy status of the included checks:
\* Failing if one is Failing, else Degraded if one is Degraded, else Passing;
\* a CA check that is not included has no influence.
C9_OverallStatus ==
    HealthDone =>
        Report.Status =
            (IF Failing \in IncludedStatuses THEN Failing
             ELSE IF Degraded \in IncludedStatuses THEN Degraded
             ELSE Passing)

\* {Passing, Passing, Degraded}: only the last check keeps the report from Passing
C9_Witness ==
    /\ HealthDone /\ Len(Checks) = 3
    /\ Checks[1].Status = Passing /\ Checks[2].Status = Passing
    /\ Checks[3].Status = Degraded
    /\ Report.Status = Degraded

\* C10: the checks are in the order signer, TRC, CA; the CA check is there, as
\* the third and last, exactly when the CA probe is applicable: 2 checks
\* without it and 3 with it.
C10_CheckOrder ==
    HealthDone =>
        /\ Checks[1].Name = SignerName
        /\ Checks[2].Name = TRCName
        /\ Len(Checks) = (IF probes.ca.ok THEN 3 ELSE 2)
        /\ probes.ca.ok => Checks[3].Name = CAName
        /\ HasCheck(CAName) <=> probes.ca.ok

\* the CA probe not applicable, signer failing, TRC failing: two checks, same order
C10_Witness ==
    /\ HealthDone /\ ~probes.ca.ok
    /\ Len(Checks) = 2
    /\ Checks[1].Name = SignerName /\ Checks[1].Status = Failing
    /\ Checks[2].Name = TRCName /\ Checks[2].Status = Failing

\* C13: the TRC check carries a detail only when the TRC was not found: none
\* when it was found (the check is Passing), and the not-found reason, if one
\* was supplied, when it was not.
C13_TRCDetailOnlyWhenNotFound ==
    HealthDone =>
        LET c == CheckNamed(TRCName)
            th == probes.trc
        IN /\ ~th.TRCNotFound => c.Detail = Nil
           /\ th.TRCNotFound =>
                 c.Detail = (IF th.TRCNotFoundDetail = "" THEN Nil
                             ELSE Ref(th.TRCNotFoundDetail))

====
